---- MODULE Spec2Model ----
(***************************************************************************)
(* State machine of the Home component of src/src/app/page.tsx: the model  *)
(* loader (loadModel), the static-image path (handle_OpenImage,            *)
(* handle_ImageLoad), the camera path (handle_ToggleCamera,                *)
(* handle_cameraLoad) and the frame loop (handle_frame_continuous).        *)
(* Every await of the source is a suspension point: the part of a handler  *)
(* before an await and the part after it are separate actions, and any     *)
(* other handler may run in between.                                       *)
(***************************************************************************)
EXTENDS Integers, FiniteSets, Sequences, TLC

\* Bound of the model: how many operations the user may start after the page
\* has mounted (a change of a selector, an image opened, a camera opened).
MaxStarts == 3

NULL == 0

\* The mount calls loadModel once; every change of a selector once more.
LoadIds == 1..(MaxStarts + 1)
StreamIds == 1..MaxStarts
ImageIds == 1..MaxStarts

VARIABLES
  sessionRef,      \* sessionRef.current: NULL or the session built by load l
  load,            \* position of every loadModel invocation
  isModelLoaded,   \* React state isModelLoaded
  modelStatus,     \* modelStatusRef.current.textContent
  cameras,         \* cameras.length
  getCamerasPc,    \* position of getCameras
  cameraStream,    \* React state cameraStream: NULL or a stream
  srcObject,       \* cameraRef.current.srcObject
  track,           \* state of the tracks of every MediaStream obtained
  gumPending,      \* handle_ToggleCamera invocations awaiting getUserMedia
  imgSrc,          \* React state imgSrc: NULL or the image opened
  fileDialog,      \* the file picker of the hidden input is open
  imgTask,         \* handle_ImageLoad invocations, one per image
  chain,           \* handle_frame_continuous chains, one per loadeddata
  inputCanvas,     \* inputCanvasRef: the chain whose frame it holds
  overlay,         \* overlayRef: its size
  details          \* React state details: the cycles whose entries it holds

vars == <<sessionRef, load, isModelLoaded, modelStatus, cameras,
          getCamerasPc, cameraStream, srcObject, track, gumPending, imgSrc,
          fileDialog, imgTask, chain, inputCanvas, overlay, details>>

loadVars == <<sessionRef, load, isModelLoaded, modelStatus>>
cameraVars == <<cameraStream, srcObject, track, gumPending>>
imageVars == <<imgSrc, fileDialog, imgTask>>

\* A call that has not been made yet.
NoTask == [pc |-> "none", sess |-> NULL, stale |-> FALSE]
\* The detection list is modelled by the cycles its entries come from:
\* none at first (useState([])), the calling cycle in what inference_pipeline
\* returns to it.
NoDetails == {}
results(kind, id) == {[kind |-> kind, id |-> id]}
\* An invocation that has returned ("done") or thrown ("rejected").
Ended(how) == [pc |-> how, sess |-> NULL, stale |-> FALSE]

\* The positions at which an invocation is suspended in the middle of a cycle.
InFlight == {"infer", "draw"}
\* The positions of a chain that will run again.
Alive == {"raf", "infer", "draw"}

NLoads == Cardinality({l \in LoadIds : load[l] # "none"})
NStreams == Cardinality({s \in StreamIds : track[s] # "none"})
NImages == Cardinality({i \in ImageIds : imgTask[i].pc # "none"})

\* The operations the user has started since the mount.
Started == (NLoads - 1) + NStreams + gumPending + NImages

\* The state after the first render and its effect: loadModel() and
\* getCameras() have been called and are suspended at their awaits.
Init ==
  /\ sessionRef = NULL
  /\ load = [l \in LoadIds |-> IF l = 1 THEN "await" ELSE "none"]
  /\ isModelLoaded = FALSE
  /\ modelStatus = "Loading model..."
  /\ cameras = 0
  /\ getCamerasPc = "await"
  /\ cameraStream = NULL
  /\ srcObject = NULL
  /\ track = [s \in StreamIds |-> "none"]
  /\ gumPending = 0
  /\ imgSrc = NULL
  /\ fileDialog = FALSE
  /\ imgTask = [i \in ImageIds |-> NoTask]
  /\ chain = [s \in StreamIds |-> NoTask]
  /\ inputCanvas = NULL
  /\ overlay = "default"
  /\ details = NoDetails

(***************************************************************************)
(* Backend Session Manager: loadModel, lines 54-85.                        *)
(***************************************************************************)

\* A selector changes, onChange={loadModel} (lines 200 and 207): loadModel
\* up to its await, lines 55-70. Invocation l reads the selection made by the
\* l-th change, so the session it builds is identified with l.
loadModel ==
  /\ ~fileDialog
  /\ Started < MaxStarts
  /\ modelStatus' = "Loading model..."
  /\ isModelLoaded' = FALSE
  /\ load' = [load EXCEPT ![NLoads + 1] = "await"]
  /\ UNCHANGED <<sessionRef, cameras, getCamerasPc, cameraVars, imageVars,
                 chain, inputCanvas, overlay, details>>

\* Mutant of loadModel_then: the new session is also handed to the cycles
\* that are in flight, as if a cycle read sessionRef.current when it resumes.
loadModel_then_rebindsInFlight(l) ==
  /\ load[l] = "await"
  /\ load' = [load EXCEPT ![l] = "resolved"]
  /\ sessionRef' = l
  /\ modelStatus' = "Model loaded"
  /\ isModelLoaded' = TRUE
  /\ chain' = [c \in StreamIds |->
                 IF chain[c].pc \in {"infer", "draw"}
                   THEN [chain[c] EXCEPT !.sess = l] ELSE chain[c]]
  /\ UNCHANGED <<cameras, getCamerasPc, cameraVars, imageVars, inputCanvas,
                 overlay, details>>

\* model_loader resolved: lines 71-77.
loadModel_then(l) ==
  /\ load[l] = "await"
  /\ load' = [load EXCEPT ![l] = "resolved"]
  /\ sessionRef' = l
  /\ modelStatus' = "Model loaded"
  /\ isModelLoaded' = TRUE
  /\ UNCHANGED <<cameras, getCamerasPc, cameraVars, imageVars, chain,
                 inputCanvas, overlay, details>>

\* Mutant of loadModel_catch: the failed load clears sessionRef.current.
loadModel_catch_clearsSession(l) ==
  /\ load[l] = "await"
  /\ load' = [load EXCEPT ![l] = "rejected"]
  /\ modelStatus' = "Model loading failed"
  /\ sessionRef' = NULL
  /\ UNCHANGED <<isModelLoaded, cameras, getCamerasPc, cameraVars, imageVars,
                 chain, inputCanvas, overlay, details>>

\* Mutant of loadModel_catch: the failed load falls back by calling
\* model_loader again on its own.
loadModel_catch_retries(l) ==
  /\ load[l] = "await"
  /\ NLoads < MaxStarts + 1
  /\ load' = [load EXCEPT ![l] = "rejected", ![NLoads + 1] = "await"]
  /\ modelStatus' = "Loading model..."
  /\ UNCHANGED <<sessionRef, isModelLoaded, cameras, getCamerasPc, cameraVars,
                 imageVars, chain, inputCanvas, overlay, details>>

\* model_loader rejected: lines 78-84.
loadModel_catch(l) ==
  /\ load[l] = "await"
  /\ load' = [load EXCEPT ![l] = "rejected"]
  /\ modelStatus' = "Model loading failed"
  /\ UNCHANGED <<sessionRef, isModelLoaded, cameras, getCamerasPc, cameraVars,
                 imageVars, chain, inputCanvas, overlay, details>>

\* The sessions model_loader has returned. page.tsx holds no call that
\* releases a session, so every one of them stays alive.
liveSessions == {l \in LoadIds : load[l] = "resolved"}

\* getCameras: lines 122-130. enumerateDevices resolves with n video inputs.
getCameras_then(n) ==
  /\ getCamerasPc = "await"
  /\ getCamerasPc' = "done"
  /\ cameras' = n
  /\ UNCHANGED <<loadVars, cameraVars, imageVars, chain, inputCanvas, overlay,
                 details>>

\* enumerateDevices rejects: lines 127-129.
getCameras_catch ==
  /\ getCamerasPc = "await"
  /\ getCamerasPc' = "done"
  /\ UNCHANGED <<cameras, loadVars, cameraVars, imageVars, chain, inputCanvas,
                 overlay, details>>

(***************************************************************************)
(* Static-image path: the Open/Close Image button (lines 260-284),         *)
(* handle_OpenImage (lines 98-105) and handle_ImageLoad (lines 107-120).   *)
(***************************************************************************)

\* disabled={!!cameraStream || !isModelLoaded}, line 262.
imageButtonDisabled == cameraStream # NULL \/ ~isModelLoaded

\* setImgSrc(null) unmounts the <img> (line 244): one that has not loaded yet
\* never fires its load event. A handle_ImageLoad already suspended goes on.
unmountImage(f) ==
  [i \in DOMAIN f |-> IF f[i].pc = "loading" THEN Ended("done") ELSE f[i]]

\* onClick of the image button, lines 263-274: with no image it opens the
\* file picker; with an image it closes the image and empties the overlay.
ClickImageButton ==
  /\ ~fileDialog
  /\ ~imageButtonDisabled
  /\ IF imgSrc = NULL
       THEN /\ Started < MaxStarts
            /\ fileDialog' = TRUE
            /\ UNCHANGED <<imgSrc, imgTask, overlay>>
       ELSE /\ imgSrc' = NULL
            /\ overlay' = "zero"
            /\ imgTask' = unmountImage(imgTask)
            /\ UNCHANGED fileDialog
  /\ UNCHANGED <<loadVars, cameras, getCamerasPc, cameraVars, chain,
                 inputCanvas, details>>

\* handle_OpenImage, lines 98-105: the picker closes with a file chosen
\* (picked) or without one, in which case no change event does anything.
handle_OpenImage(picked) ==
  /\ fileDialog
  /\ fileDialog' = FALSE
  /\ IF picked
       THEN /\ imgSrc' = NImages + 1
            /\ imgTask' = [imgTask EXCEPT ![NImages + 1].pc = "loading"]
       ELSE UNCHANGED <<imgSrc, imgTask>>
  /\ UNCHANGED <<loadVars, cameras, getCamerasPc, cameraVars, chain,
                 inputCanvas, overlay, details>>

\* handle_ImageLoad up to its first await, lines 108-116: the load event of
\* the <img> mounted for image i.
handle_ImageLoad(i) ==
  /\ imgSrc = i
  /\ imgTask[i].pc = "loading"
  /\ IF sessionRef = NULL
       THEN /\ imgTask' = [imgTask EXCEPT ![i] = Ended("done")]
            /\ UNCHANGED overlay
       ELSE /\ overlay' = "img"
            /\ imgTask' = [imgTask EXCEPT
                             ![i] = [pc |-> "infer", sess |-> sessionRef,
                                     stale |-> FALSE]]
  /\ UNCHANGED <<imgSrc, fileDialog, loadVars, cameras, getCamerasPc,
                 cameraVars, chain, inputCanvas, details>>

\* inference_pipeline resolved: lines 117-119, up to the second await.
handle_ImageLoad_then(i) ==
  /\ imgTask[i].pc = "infer"
  /\ details' = results("img", i)
  /\ imgTask' = [imgTask EXCEPT ![i].pc = "draw"]
  /\ UNCHANGED <<imgSrc, fileDialog, loadVars, cameras, getCamerasPc,
                 cameraVars, chain, inputCanvas, overlay>>

\* inference_pipeline rejected: the async function rejects at line 111.
handle_ImageLoad_reject(i) ==
  /\ imgTask[i].pc = "infer"
  /\ imgTask' = [imgTask EXCEPT ![i] = Ended("rejected")]
  /\ UNCHANGED <<imgSrc, fileDialog, loadVars, cameras, getCamerasPc,
                 cameraVars, chain, inputCanvas, overlay, details>>

\* draw_bounding_boxes resolved: line 119, the handler returns.
handle_ImageLoad_drawn(i) ==
  /\ imgTask[i].pc = "draw"
  /\ imgTask' = [imgTask EXCEPT ![i] = Ended("done")]
  /\ UNCHANGED <<imgSrc, fileDialog, loadVars, cameras, getCamerasPc,
                 cameraVars, chain, inputCanvas, overlay, details>>

(***************************************************************************)
(* Camera path: handle_ToggleCamera (lines 132-153).                       *)
(***************************************************************************)

\* Mutant of cameraButtonDisabled: the button does not look at isModelLoaded.
cameraButtonDisabled_ignoresModel == cameras = 0 \/ imgSrc # NULL

\* disabled={cameras.length === 0 || !!imgSrc || !isModelLoaded}, line 288.
cameraButtonDisabled == cameras = 0 \/ imgSrc # NULL \/ ~isModelLoaded

\* The chains that are running when the camera is closed. The close branch
\* does nothing to them; stale only records that they were running then.
markStale(f) ==
  [c \in DOMAIN f |->
     IF f[c].pc \in Alive THEN [f[c] EXCEPT !.stale = TRUE] ELSE f[c]]

\* handle_ToggleCamera up to its return or its await: with a stream it stops
\* the tracks, detaches the video and empties the overlay (lines 134-140);
\* without one it calls getUserMedia (line 143).
handle_ToggleCamera ==
  /\ ~fileDialog
  /\ ~cameraButtonDisabled
  /\ IF cameraStream # NULL
       THEN /\ track' = [track EXCEPT ![cameraStream] = "stopped"]
            /\ srcObject' = NULL
            /\ cameraStream' = NULL
            /\ overlay' = "zero"
            /\ chain' = markStale(chain)
            /\ UNCHANGED gumPending
       ELSE /\ Started < MaxStarts
            /\ gumPending' = gumPending + 1
            /\ UNCHANGED <<track, srcObject, cameraStream, overlay, chain>>
  /\ UNCHANGED <<loadVars, cameras, getCamerasPc, imageVars, inputCanvas,
                 details>>

\* getUserMedia resolved with a new stream: lines 147-148.
handle_ToggleCamera_then ==
  /\ gumPending > 0
  /\ gumPending' = gumPending - 1
  /\ track' = [track EXCEPT ![NStreams + 1] = "live"]
  /\ cameraStream' = NStreams + 1
  /\ srcObject' = NStreams + 1
  /\ UNCHANGED <<loadVars, cameras, getCamerasPc, imageVars, chain,
                 inputCanvas, overlay, details>>

\* getUserMedia rejected: lines 149-151.
handle_ToggleCamera_catch ==
  /\ gumPending > 0
  /\ gumPending' = gumPending - 1
  /\ UNCHANGED <<track, cameraStream, srcObject, loadVars, cameras,
                 getCamerasPc, imageVars, chain, inputCanvas, overlay, details>>

\* The tracks of stream s end on their own (device unplugged, permission
\* revoked). page.tsx registers no listener for it: nothing else changes.
TrackEnded(s) ==
  /\ track[s] = "live"
  /\ track' = [track EXCEPT ![s] = "ended"]
  /\ UNCHANGED <<cameraStream, srcObject, gumPending, loadVars, cameras,
                 getCamerasPc, imageVars, chain, inputCanvas, overlay, details>>

(***************************************************************************)
(* Frame loop: handle_cameraLoad (lines 155-164) and                       *)
(* handle_frame_continuous (lines 166-190).                                *)
(***************************************************************************)

\* Mutant of frameStep: line 176 tests the canvases only and the call passes
\* the session the callback closed over when it was created (useCallback with
\* no dependencies), which is the initial null.
frameStep_closureSession(c) ==
  IF srcObject = NULL
    THEN /\ chain' = [chain EXCEPT ![c] = Ended("done")]
         /\ UNCHANGED inputCanvas
    ELSE /\ inputCanvas' = c
         /\ chain' = [chain EXCEPT
                        ![c] = [pc |-> "infer", sess |-> NULL,
                                stale |-> chain[c].stale]]

\* One invocation of handle_frame_continuous by chain c up to its return or
\* its first await: the guard of line 168, the capture of line 169, then the
\* call of inference_pipeline (line 177) or, with no session, the
\* requestAnimationFrame of line 187.
frameStep(c) ==
  IF srcObject = NULL
    THEN /\ chain' = [chain EXCEPT ![c] = Ended("done")]
         /\ UNCHANGED inputCanvas
    ELSE /\ inputCanvas' = c
         /\ chain' = [chain EXCEPT
                        ![c] = IF sessionRef # NULL
                                 THEN [pc |-> "infer", sess |-> sessionRef,
                                       stale |-> chain[c].stale]
                                 ELSE [pc |-> "raf", sess |-> NULL,
                                       stale |-> chain[c].stale]]

\* handle_cameraLoad: the loadeddata event of the <video> for the stream s
\* attached to it. It sizes the input canvas and the overlay and starts a
\* chain.
handle_cameraLoad(s) ==
  /\ srcObject = s
  /\ track[s] = "live"
  /\ chain[s].pc = "none"
  /\ overlay' = "video"
  /\ frameStep(s)
  /\ UNCHANGED <<loadVars, cameras, getCamerasPc, cameraVars, imageVars,
                 details>>

\* The requestAnimationFrame callback of chain c runs: line 187.
handle_frame_continuous(c) ==
  /\ chain[c].pc = "raf"
  /\ frameStep(c)
  /\ UNCHANGED <<loadVars, cameras, getCamerasPc, cameraVars, imageVars,
                 overlay, details>>

\* Mutant of handle_frame_continuous_then: the results are appended to the
\* list, setDetails((prev) => [...prev, ...results]).
handle_frame_continuous_then_appends(c) ==
  /\ chain[c].pc = "infer"
  /\ details' = details \cup results("frame", c)
  /\ chain' = [chain EXCEPT ![c].pc = "draw"]
  /\ UNCHANGED <<loadVars, cameras, getCamerasPc, cameraVars, imageVars,
                 inputCanvas, overlay>>

\* inference_pipeline resolved: lines 183-185, up to the second await.
handle_frame_continuous_then(c) ==
  /\ chain[c].pc = "infer"
  /\ details' = results("frame", c)
  /\ chain' = [chain EXCEPT ![c].pc = "draw"]
  /\ UNCHANGED <<loadVars, cameras, getCamerasPc, cameraVars, imageVars,
                 inputCanvas, overlay>>

\* inference_pipeline rejected: the async function rejects at line 177 and
\* line 187 is not reached.
handle_frame_continuous_reject(c) ==
  /\ chain[c].pc = "infer"
  /\ chain' = [chain EXCEPT ![c] = Ended("rejected")]
  /\ UNCHANGED <<loadVars, cameras, getCamerasPc, cameraVars, imageVars,
                 inputCanvas, overlay, details>>

\* draw_bounding_boxes resolved: line 187 schedules the next invocation.
handle_frame_continuous_drawn(c) ==
  /\ chain[c].pc = "draw"
  /\ chain' = [chain EXCEPT ![c].pc = "raf", ![c].sess = NULL]
  /\ UNCHANGED <<loadVars, cameras, getCamerasPc, cameraVars, imageVars,
                 inputCanvas, overlay, details>>

(***************************************************************************)
(* The specification.                                                      *)
(***************************************************************************)

Next ==
  \/ loadModel
  \/ \E l \in LoadIds : loadModel_then(l)
  \/ \E l \in LoadIds : loadModel_catch(l)
  \/ \E n \in 0..1 : getCameras_then(n)
  \/ getCameras_catch
  \/ ClickImageButton
  \/ \E picked \in BOOLEAN : handle_OpenImage(picked)
  \/ \E i \in ImageIds : handle_ImageLoad(i)
  \/ \E i \in ImageIds : handle_ImageLoad_then(i)
  \/ \E i \in ImageIds : handle_ImageLoad_reject(i)
  \/ \E i \in ImageIds : handle_ImageLoad_drawn(i)
  \/ handle_ToggleCamera
  \/ handle_ToggleCamera_then
  \/ handle_ToggleCamera_catch
  \/ \E s \in StreamIds : TrackEnded(s)
  \/ \E s \in StreamIds : handle_cameraLoad(s)
  \/ \E c \in StreamIds : handle_frame_continuous(c)
  \/ \E c \in StreamIds : handle_frame_continuous_then(c)
  \/ \E c \in StreamIds : handle_frame_continuous_reject(c)
  \/ \E c \in StreamIds : handle_frame_continuous_drawn(c)

Spec == Init /\ [][Next]_vars

\* The scheduling the browser guarantees to a chain: a requestAnimationFrame
\* callback is eventually run and an awaited promise eventually settles.
\* Nothing obliges the user to click, nor a load or a track to end.
ChainFairness ==
  \A c \in StreamIds :
    /\ WF_vars(handle_frame_continuous(c))
    /\ WF_vars(handle_frame_continuous_then(c)
                 \/ handle_frame_continuous_reject(c))
    /\ WF_vars(handle_frame_continuous_drawn(c))

FairSpec == Spec /\ ChainFairness

(***************************************************************************)
(* Properties.                                                             *)
(***************************************************************************)

Inferring == {c \in StreamIds : chain[c].pc = "infer"}
ImageInferring == {i \in ImageIds : imgTask[i].pc = "infer"}

\* C1: in streaming mode exactly one cycle is in flight at a time: no chain
\* captures while the cycle of another chain is between its capture and the
\* end of its render, so two chains are never in flight together.
C1_OneCycleInFlight ==
  Cardinality({c \in StreamIds : chain[c].pc \in InFlight}) <= 1

\* C2: at most one inference_pipeline call is pending at any moment, the
\* static-image path and the streaming path counted together.
C2_OneInferencePending ==
  Cardinality(Inferring) + Cardinality(ImageInferring) <= 1

\* Chain c calls inference_pipeline in this step: a new cycle starts.
StartsCycle(c) == chain[c].pc \notin InFlight /\ chain'[c].pc = "infer"
\* Chain c is in the middle of one cycle before and after this step.
StaysInFlight(c) == chain[c].pc \in InFlight /\ chain'[c].pc \in InFlight

\* C3: a session replacement during a cycle does not affect the cycle: a
\* cycle in flight keeps the session it was started with whatever else
\* happens, and a cycle that starts uses the session that is current then.
C3_CycleKeepsSession ==
  [][\A c \in StreamIds :
       /\ StaysInFlight(c) => chain'[c].sess = chain[c].sess
       /\ StartsCycle(c) => chain'[c].sess = sessionRef
     ]_vars

\* C3 witness: a cycle is in flight with the session it started with while
\* sessionRef.current has been replaced by a later load.
C3_Witness ==
  \E c \in StreamIds :
    /\ chain[c].pc \in InFlight
    /\ chain[c].sess # NULL
    /\ sessionRef # NULL
    /\ chain[c].sess # sessionRef

\* C4: once the tracks of the stream a chain was started on have stopped or
\* ended, the chain starts no new inference_pipeline call.
C4_NoInferenceAfterStreamEnd ==
  [][\A c \in StreamIds : StartsCycle(c) => track[c] = "live"]_vars

\* C5: a forward pass that finishes after the stream was stopped or the image
\* was closed has its result discarded: it is not stored with setDetails and
\* draw_bounding_boxes is not called with it.
C5_StaleResultDiscarded ==
  [][/\ \A c \in StreamIds :
          (chain[c].pc = "infer" /\ chain'[c].pc # "infer" /\ srcObject = NULL)
            => (chain'[c].pc # "draw" /\ details' = details)
     /\ \A i \in ImageIds :
          (imgTask[i].pc = "infer" /\ imgTask'[i].pc # "infer" /\ imgSrc # i)
            => (imgTask'[i].pc # "draw" /\ details' = details)
    ]_vars

\* C6: a cycle that ends without rendering (its forward pass failed) while
\* the stream is open is followed by a next cycle: the chain has scheduled
\* its next invocation.
C6_FailedCycleReschedules ==
  [][\A c \in StreamIds :
       (chain[c].pc = "infer" /\ chain'[c].pc \notin InFlight
          /\ srcObject # NULL)
         => chain'[c].pc = "raf"
    ]_vars

\* C7: exactly one session handle is live: no session that model_loader
\* returned is alive without being sessionRef.current.
C7_OneLiveSession == liveSessions \subseteq {sessionRef}

\* C8: replace-or-fail: sessionRef.current changes only in the step in which
\* a pending load completes successfully, and then to the session of that
\* load; the step in which a load fails leaves it as it was.
C8_ReplaceOrFail ==
  [][/\ sessionRef' # sessionRef
          => \E l \in LoadIds :
               load[l] = "await" /\ load'[l] = "resolved" /\ sessionRef' = l
     /\ \A l \in LoadIds :
          (load[l] = "await" /\ load'[l] = "rejected")
            => sessionRef' = sessionRef
    ]_vars

\* C8 witness: a load has failed while a session of an earlier load was
\* current, and that session still is.
C8_Witness ==
  /\ modelStatus = "Model loading failed"
  /\ sessionRef # NULL
  /\ load[sessionRef] = "resolved"
  /\ \E l \in LoadIds : load[l] = "rejected"

\* C9: while a cycle is in flight no handler redraws or resizes the input
\* canvas or the overlay.
C9_CycleIsolation ==
  [][(\E c \in StreamIds : StaysInFlight(c))
       => (inputCanvas' = inputCanvas /\ overlay' = overlay)
    ]_vars

\* C10: a chain that was running when the camera was closed eventually stops
\* rescheduling itself.
C10_StaleChainStops ==
  \A c \in StreamIds :
    (chain[c].stale /\ chain[c].pc \in Alive)
      ~> (chain[c].pc \in {"done", "rejected"})

\* The loadModel invocations suspended at their await of model_loader.
Loading == {l \in LoadIds : load[l] = "await"}

\* C11: a failed load is not retried and falls back to nothing: model_loader
\* is called only in a step in which the user changes a selector, and the
\* step in which a load fails calls nothing and sets the status to "Model
\* loading failed".
C11_NoRetryAfterFailure ==
  [][/\ (\E l \in LoadIds : load[l] = "none" /\ load'[l] # "none")
          => loadModel
     /\ \A l \in LoadIds :
          (load[l] = "await" /\ load'[l] = "rejected")
            => /\ modelStatus' = "Model loading failed"
               /\ \A k \in LoadIds : load'[k] = "await" => load[k] = "await"
    ]_vars

\* C11 witness: a load has failed, the status shows it and no model_loader
\* call is pending.
C11_Witness ==
  /\ \E l \in LoadIds : load[l] = "rejected"
  /\ modelStatus = "Model loading failed"
  /\ Loading = {}

\* C12: a completed cycle replaces the detection list entirely: in the step
\* in which a cycle stores its results, the list becomes exactly the results
\* of that cycle, whatever it held before.
C12_DetailsReplaced ==
  [][/\ \A c \in StreamIds :
          (chain[c].pc = "infer" /\ chain'[c].pc = "draw")
            => details' = results("frame", c)
     /\ \A i \in ImageIds :
          (imgTask[i].pc = "infer" /\ imgTask'[i].pc = "draw")
            => details' = results("img", i)
    ]_vars

\* C12 witness: a cycle has stored its results after a cycle of another
\* chain had stored and rendered its own: the list holds the entries of the
\* later cycle only.
C12_Witness ==
  \E c, e \in StreamIds :
    /\ c # e
    /\ chain[c].pc = "draw"
    /\ chain[e].pc = "raf"
    /\ details = results("frame", c)

\* C13: the latest request wins: once every load has settled, and the load
\* requested last has succeeded, sessionRef.current is the session of that
\* load, whatever order the loads completed in.
C13_LatestRequestWins ==
  (Loading = {} /\ load[NLoads] = "resolved") => sessionRef = NLoads

\* C14: static-image mode and camera mode are mutually exclusive: imgSrc and
\* cameraStream are never both set.
C14_ImageXorCamera == ~(imgSrc # NULL /\ cameraStream # NULL)

\* C15: the load status is consistent: isModelLoaded is true only when no
\* loadModel invocation is pending and the load requested last has succeeded,
\* and never while the status reads "Loading model..." or "Model loading
\* failed".
C15_LoadStatusConsistent ==
  isModelLoaded
    => /\ Loading = {}
       /\ load[NLoads] = "resolved"
       /\ modelStatus \notin {"Loading model...", "Model loading failed"}

\* C16: at most one camera stream is open and none leaks: every stream
\* getUserMedia has returned and whose tracks nobody has stopped is the one
\* held in cameraStream, which the next close stops.
C16_OneStreamNoLeak ==
  \A s \in StreamIds : track[s] = "live" => cameraStream = s

C18_ControlsGatedOnModel ==
  [][/\ ( \/ (~fileDialog /\ fileDialog')
          \/ (imgSrc = NULL /\ imgSrc' # NULL)
          \/ (imgSrc # NULL /\ imgSrc' = NULL)
          \/ gumPending' > gumPending
          \/ (cameraStream # NULL /\ cameraStream' = NULL) )
          => (isModelLoaded /\ sessionRef # NULL)
     /\ isModelLoaded' => sessionRef' # NULL
    ]_vars

\* C18 witness: with a model loaded, an image has been opened and closed and
\* the camera has been opened.
C18_Witness ==
  /\ isModelLoaded /\ sessionRef # NULL
  /\ cameraStream # NULL
  /\ imgSrc = NULL /\ \E i \in ImageIds : imgTask[i].pc # "none"

====
